---- MODULE Spec2Model ----
(***************************************************************************)
(* Model of timestamps.py: four seed dates are advanced one year at a time *)
(* and the local-time epoch timestamp of each advanced date is appended to *)
(* the list `timestamps` until it holds at least 80 values; the list is    *)
(* then printed.                                                           *)
(*                                                                         *)
(* The script is a straight-line sequential program.  One action models    *)
(* one evaluation step of it: the test of the while guard, one element of  *)
(* the list comprehension, the rebinding of `dates`, one element consumed  *)
(* by list.extend from its generator argument, the end of extend, and the  *)
(* print.                                                                  *)
(*                                                                         *)
(* Timestamps are held in whole MINUTES since the epoch.  The value the    *)
(* script holds is the float 60.0 times that: every operand is a whole     *)
(* number of minutes (midnights and zone offsets), floats of this size are *)
(* exact, and the seconds of 2038 and later do not fit the 32-bit integers *)
(* of the model checker.                                                   *)
(***************************************************************************)
EXTENDS Integers, Sequences, FiniteSets

VARIABLES
    dates,        \* the name `dates`: the list of four datetimes
    timestamps,   \* the name `timestamps`: the accumulated list
    newdates,     \* the list the comprehension of lines 13-16 is building
    gi,           \* how many elements extend has drawn from its generator
    pc,           \* position: "while", "comp", "extend", "print", "done", "error"
    stdout,       \* what has been printed: a sequence of printed lists
    tz,           \* the local time zone of the machine (environment)
    seeds,        \* history: the value `dates` was initialised to
    iterations    \* history: number of completed loop iterations

vars == <<dates, timestamps, newdates, gi, pc, stdout, tz, seeds, iterations>>

-----------------------------------------------------------------------------
(* Bounds of the model                                                     *)

\* Standard UTC offsets of the local zone range over -MaxUtcOffsetHours ..
\* MaxUtcOffsetHours whole hours.
MaxUtcOffsetHours == 1

-----------------------------------------------------------------------------
(* Calendar arithmetic of datetime (proleptic Gregorian)                   *)

MINYEAR == 1
MAXYEAR == 9999

Date(y, m, d) == [year |-> y, month |-> m, day |-> d]

IsLeap(y) == (y % 4 = 0) /\ ((y % 100 # 0) \/ (y % 400 = 0))

DaysInMonth(y, m) ==
    IF m = 2 THEN (IF IsLeap(y) THEN 29 ELSE 28)
    ELSE IF m \in {4, 6, 9, 11} THEN 30 ELSE 31

\* The check the datetime constructor and replace() make on their fields.
ValidDate(y, m, d) ==
    /\ y \in MINYEAR..MAXYEAR
    /\ m \in 1..12
    /\ d \in 1..DaysInMonth(y, m)

DaysBeforeYear(y) ==
    (y - 1) * 365 + ((y - 1) \div 4) - ((y - 1) \div 100) + ((y - 1) \div 400)

DaysBeforeMonthTable == <<0, 31, 59, 90, 120, 151, 181, 212, 243, 273, 304, 334>>

\* The leap day of the year left out.
DaysBeforeMonthNoLeap(y, m) == DaysBeforeMonthTable[m]

DaysBeforeMonth(y, m) ==
    DaysBeforeMonthTable[m] + (IF m > 2 /\ IsLeap(y) THEN 1 ELSE 0)

\* Proleptic Gregorian ordinal: 0001-01-01 is day 1.
Ymd2Ord(d) == DaysBeforeYear(d.year) + DaysBeforeMonth(d.year, d.month) + d.day

MinutesPerDay == 1440

Epoch == Date(1970, 1, 1)

-----------------------------------------------------------------------------
(* The local time zone                                                     *)

\* A zone is a standard offset east of UTC, in minutes, and a daylight
\* saving rule.  Daylight saving is taken at month granularity: a northern
\* rule is in force from April to October, a southern one from October to
\* March; none of the dates of the model is a transition day.
DstRules == {"none", "north", "south"}

Zones ==
    [std : {60 * h : h \in (0 - MaxUtcOffsetHours)..MaxUtcOffsetHours},
     dst : DstRules]

DstInForce(d, z) ==
    \/ z.dst = "north" /\ d.month \in 4..10
    \/ z.dst = "south" /\ d.month \in {10, 11, 12, 1, 2, 3}

\* Minutes east of UTC of local midnight of d.
UtcOffset(d, z) == z.std + (IF DstInForce(d, z) THEN 60 ELSE 0)

-----------------------------------------------------------------------------
(* The operations of the script                                            *)

\* The seed dates with the day of the second one mistyped.
SeedDatesLeapDay ==
    << Date(2023, 11, 25),
       Date(2024, 2, 29),
       Date(2024, 5, 24),
       Date(2024, 8, 29) >>

\* Lines 5-10: the seed dates.
SeedDates ==
    << Date(2023, 11, 25),
       Date(2024, 2, 25),
       Date(2024, 5, 24),
       Date(2024, 8, 29) >>

\* Line 12: the threshold of the while guard.
Threshold == 80

\* The guard with <= for <.
LoopGuardLeq(ts) == Len(ts) <= 80

\* The guard counting iterations' worth of values one too many.
LoopGuardLate(ts) == Len(ts) < 80 + 4

\* Line 12: the while guard.
LoopGuard(ts) == Len(ts) < Threshold

\* The year left as it is.
NextYearSame(d) == d.year

\* Line 14: d.year+1, the argument of replace.
NextYear(d) == d.year + 1

\* A replace that never raises.
ReplaceNeverRaises(d, y) == FALSE

\* Line 14: d.replace(year=y) raises ValueError exactly when the new fields
\* are not a date.
ReplaceRaises(d, y) == ~ValidDate(y, d.month, d.day)

\* The result of replace dropped: the datetime is immutable and comes back
\* unchanged.
ReplaceDiscarded(d, y) == d

\* A date rebuilt from year and month alone.
ReplaceResetsDay(d, y) == [year |-> y, month |-> d.month, day |-> 1]

\* Line 14: the value of d.replace(year=y) when it does not raise.
Replace(d, y) == Date(y, d.month, d.day)

\* Line 17: d.timestamp() of a naive datetime at midnight: the instant at
\* which the local clock shows d, in minutes since the epoch.
Timestamp(d, z) ==
    (Ymd2Ord(d) - Ymd2Ord(Epoch)) * MinutesPerDay - UtcOffset(d, z)

\* The value appended twice.
ExtendOneTwice(ts, v) == ts \o <<v, v>>

\* The value inserted at the front.
ExtendOneFront(ts, v) == <<v>> \o ts

\* Line 17: what extend does with one value drawn from the generator.
ExtendOne(ts, v) == Append(ts, v)

\* Line 19: print writes the list as one line.
PrintLine(out, ts) == Append(out, ts)

-----------------------------------------------------------------------------
(* Initial states                                                          *)

InitWith(s) ==
    /\ seeds = s
    /\ dates = s
    /\ timestamps = <<>>
    /\ newdates = <<>>
    /\ gi = 0
    /\ pc = "while"
    /\ stdout = <<>>
    /\ tz \in Zones
    /\ iterations = 0

\* Lines 3-10 as written.
Init == InitWith(SeedDates)

\* Seed sets other than the script's: every position drawn from a few dates,
\* leap days among them.
SeedChoices ==
    { Date(2023, 11, 25), Date(2024, 2, 28), Date(2024, 2, 29), Date(2028, 2, 29) }

SeedSets == {SeedDates} \cup [1..4 -> SeedChoices]

InitAny == \E s \in SeedSets : InitWith(s)

-----------------------------------------------------------------------------
(* Actions                                                                 *)

\* Line 12: evaluate the guard; enter the body or fall through to print.
WhileTest ==
    /\ pc = "while"
    /\ IF LoopGuard(timestamps)
       THEN pc' = "comp" /\ newdates' = <<>>
       ELSE pc' = "print" /\ UNCHANGED newdates
    /\ UNCHANGED <<dates, timestamps, gi, stdout, tz, seeds, iterations>>

\* Lines 13-16: one element of the list comprehension.  A ValueError from
\* replace is not caught anywhere: the script ends with a traceback.
CompStep ==
    /\ pc = "comp"
    /\ Len(newdates) < Len(dates)
    /\ LET d == dates[Len(newdates) + 1] IN
         IF ReplaceRaises(d, NextYear(d))
         THEN pc' = "error" /\ UNCHANGED newdates
         ELSE pc' = pc /\ newdates' = Append(newdates, Replace(d, NextYear(d)))
    /\ UNCHANGED <<dates, timestamps, gi, stdout, tz, seeds, iterations>>

\* Line 13: the finished list is bound to `dates`; line 17 starts.
AssignDates ==
    /\ pc = "comp"
    /\ Len(newdates) = Len(dates)
    /\ dates' = newdates
    /\ newdates' = <<>>
    /\ gi' = 0
    /\ pc' = "extend"
    /\ UNCHANGED <<timestamps, stdout, tz, seeds, iterations>>

\* Line 17: extend draws one value from the generator and appends it.
ExtendStep ==
    /\ pc = "extend"
    /\ gi < Len(dates)
    /\ timestamps' = ExtendOne(timestamps, Timestamp(dates[gi + 1], tz))
    /\ gi' = gi + 1
    /\ UNCHANGED <<dates, newdates, pc, stdout, tz, seeds, iterations>>

\* Line 17: the generator is exhausted; the body is over, back to line 12.
ExtendDone ==
    /\ pc = "extend"
    /\ gi = Len(dates)
    /\ pc' = "while"
    /\ gi' = 0
    /\ iterations' = iterations + 1
    /\ UNCHANGED <<dates, timestamps, newdates, stdout, tz, seeds>>

\* Line 19.
PrintList ==
    /\ pc = "print"
    /\ stdout' = PrintLine(stdout, timestamps)
    /\ pc' = "done"
    /\ UNCHANGED <<dates, timestamps, newdates, gi, tz, seeds, iterations>>

Next ==
    \/ WhileTest
    \/ CompStep
    \/ AssignDates
    \/ ExtendStep
    \/ ExtendDone
    \/ PrintList

\* The script as written.
Spec == Init /\ [][Next]_vars

\* The script as written, which never waits: a step that can be taken is.
FairSpec == Init /\ [][Next]_vars /\ WF_vars(Next)

\* The script with other seed dates.
SpecAny == InitAny /\ [][Next]_vars

-----------------------------------------------------------------------------
(* Properties                                                              *)

IsPrefix(s, t) == Len(s) <= Len(t) /\ SubSeq(t, 1, Len(s)) = s

NoTz == [std |-> 0, dst |-> "none"]

LoopOver == pc \in {"print", "done"}

\* C1: with the fixed seeds and the threshold 80 the list never holds more
\* than 80 elements, holds exactly 80 once the loop has ended, and the list
\* that is printed has exactly 80 elements.
C1_Exactly80 ==
    /\ Len(timestamps) <= 80
    /\ LoopOver => Len(timestamps) = 80
    /\ \A n \in DOMAIN stdout : Len(stdout[n]) = 80

C1_Witness ==
    pc = "done" /\ Len(stdout) = 1 /\ Len(stdout[1]) = 80 /\ Len(timestamps) = 80

\* C2: the loop terminates, and it ends after exactly 20 iterations: the
\* guard is true before each of iterations 1..20 (0..19 completed) and false
\* once 20 are completed, which is the first time the list holds 80 values.
C2_TerminatesAfter20 ==
    /\ <>(pc = "done")
    /\ [](pc = "while" => ((Len(timestamps) < 80) <=> (iterations < 20)))
    /\ [](pc = "while" => iterations \in 0..20)
    /\ [](LoopOver => iterations = 20)

C2_Witness == pc = "done" /\ iterations = 20 /\ Len(timestamps) >= 80

\* C3: after each completed iteration the list holds 4 * iterations values
\* (0 before the first); inside the extend of an iteration it holds those
\* plus the values drawn so far.
C3_LenIsFourTimesIterations ==
    /\ pc # "extend" => Len(timestamps) = 4 * iterations
    /\ pc = "extend" => Len(timestamps) = 4 * iterations + gi

C3_Witness == pc = "while" /\ iterations = 7 /\ Len(timestamps) = 28

\* C4 as stated: in the final list, for every seed index i in 0..3 and every
\* k in 0..19, the elements at 0-based indices 4k+i and 4(k+1)+i both exist
\* and the first is smaller.
C4_AsStated ==
    LoopOver =>
        \A i \in 0..3 : \A k \in 0..19 :
            /\ 4 * k + i + 1 \in DOMAIN timestamps
            /\ 4 * (k + 1) + i + 1 \in DOMAIN timestamps
            /\ timestamps[4 * k + i + 1] < timestamps[4 * (k + 1) + i + 1]

\* C4 amended: the final list has 20 blocks, so 19 pairs of consecutive
\* blocks: for every seed index i in 0..3 and every k in 0..18 both elements
\* exist and timestamps[4k+i] < timestamps[4(k+1)+i] (0-based).  The same
\* order holds between the blocks of the list at every earlier moment.
C4_BlockMonotonic ==
    /\ LoopOver =>
        \A i \in 0..3 : \A k \in 0..18 :
            /\ 4 * k + i + 1 \in DOMAIN timestamps
            /\ 4 * (k + 1) + i + 1 \in DOMAIN timestamps
            /\ timestamps[4 * k + i + 1] < timestamps[4 * (k + 1) + i + 1]
    /\ \A j \in DOMAIN timestamps :
            j + 4 \in DOMAIN timestamps => timestamps[j] < timestamps[j + 4]

C4_Witness ==
    /\ pc = "done"
    /\ Len(timestamps) = 80
    /\ timestamps[77] < timestamps[80]
    /\ 84 \notin DOMAIN timestamps

\* The dates the first block is said to hold, and their UTC epoch minutes
\* (1732492800, 1740441600, 1748044800 and 1756425600 seconds).
C5_FirstBlock ==
    << Date(2024, 11, 25), Date(2025, 2, 25), Date(2025, 5, 24), Date(2025, 8, 29) >>

C5_FirstBlockUtc == << 28874880, 29007360, 29134080, 29273760 >>

C5_SeedsAsWritten ==
    { Date(2023, 11, 25), Date(2024, 2, 25), Date(2024, 5, 24), Date(2024, 8, 29) }

\* C5: the first 4 values are, in order, the local timestamps of 2024-11-25,
\* 2025-02-25, 2025-05-24 and 2025-08-29 (in a zone at UTC, the known epoch
\* values of those midnights), and the timestamp of no seed date as written
\* is ever in the list.
C5_FirstFourAreSeedsPlusOneYear ==
    /\ \A j \in DOMAIN timestamps :
        j <= 4 =>
            /\ timestamps[j] = Timestamp(C5_FirstBlock[j], tz)
            /\ tz = NoTz => timestamps[j] = C5_FirstBlockUtc[j]
    /\ \A j \in DOMAIN timestamps : \A d \in C5_SeedsAsWritten :
        timestamps[j] # Timestamp(d, tz)

C5_Witness ==
    /\ Len(timestamps) = 80
    /\ tz = NoTz
    /\ SubSeq(timestamps, 1, 4) = C5_FirstBlockUtc

\* C6: the value at 0-based index 4k+i is the local timestamp of seed i with
\* its year increased by k+1; the 80th value is that of 2044-08-29 (in a zone
\* at UTC, 2356041600 seconds).
C6_ValueAtIndex ==
    /\ \A j \in DOMAIN timestamps :
        LET k == (j - 1) \div 4
            s == seeds[((j - 1) % 4) + 1]
        IN  timestamps[j] = Timestamp(Date(s.year + k + 1, s.month, s.day), tz)
    /\ LoopOver =>
        /\ timestamps[Len(timestamps)] = Timestamp(Date(2044, 8, 29), tz)
        /\ 80 \in DOMAIN timestamps
        /\ timestamps[80] = Timestamp(Date(2044, 8, 29), tz)
        /\ tz = NoTz => timestamps[80] = 39267360

C6_Witness == pc = "done" /\ tz = NoTz /\ timestamps[80] = 39267360

\* C7: the list is append-only: in every step the old list is a prefix of
\* the new one and grows by at most one value, it grows only inside extend,
\* and at the end of each iteration exactly 4 values have been added since
\* its start, the timestamps of the 4 dates in the order of `dates`.
C7_AppendOnly ==
    [][ /\ IsPrefix(timestamps, timestamps')
        /\ Len(timestamps') <= Len(timestamps) + 1
        /\ timestamps' # timestamps => pc = "extend"
        /\ (pc = "while" /\ pc' = "comp") => Len(timestamps) = 4 * iterations
        /\ (pc = "extend" /\ pc' = "while") =>
            /\ iterations' = iterations + 1
            /\ Len(timestamps') = 4 * iterations + 4
            /\ \A i \in 1..4 :
                timestamps'[4 * iterations + i] = Timestamp(dates[i], tz)
      ]_vars

C7_Witness ==
    /\ pc = "while"
    /\ iterations = 2
    /\ Len(timestamps) = 8
    /\ \A i \in 1..4 : timestamps[4 + i] = Timestamp(dates[i], tz)

NotLeapDay(d) == ~(d.month = 2 /\ d.day = 29)

\* C8: with the fixed seeds the error is unreachable: no date of `dates`, or
\* of the list being built, is ever a 29 February, no increment asked of
\* replace is ever refused, and the script never ends in error.
C8_NoInvalidDate ==
    /\ pc # "error"
    /\ \A i \in DOMAIN dates :
        /\ NotLeapDay(dates[i])
        /\ ValidDate(dates[i].year + 1, dates[i].month, dates[i].day)
    /\ \A i \in DOMAIN newdates : NotLeapDay(newdates[i])

\* An increment of a February date into a non-leap year has gone through.
C8_Witness ==
    /\ pc = "extend"
    /\ dates[2] = Date(2029, 2, 25)
    /\ ~IsLeap(dates[2].year)

\* The first date of `dates` whose increment is not a date, 0 if none.
FirstInvalid ==
    IF \E i \in DOMAIN dates : ~ValidDate(dates[i].year + 1, dates[i].month, dates[i].day)
    THEN CHOOSE i \in DOMAIN dates :
            /\ ~ValidDate(dates[i].year + 1, dates[i].month, dates[i].day)
            /\ \A h \in 1..(i - 1) :
                ValidDate(dates[h].year + 1, dates[h].month, dates[h].day)
    ELSE 0

\* C9: for any seed set, an increment that is not a calendar date ends the
\* run at once: the step that meets it goes to the error state and changes
\* neither the list nor the output; an iteration that holds such a date
\* appends nothing; the error state is final, holds only the values of the
\* completed iterations and has printed nothing; and a line is printed only
\* by a run whose loop has ended without error.
C9_FailFast ==
    /\ [](pc = "error" =>
            /\ stdout = <<>>
            /\ Len(timestamps) = 4 * iterations
            /\ Len(timestamps) < 80
            /\ FirstInvalid = Len(newdates) + 1)
    /\ []((pc \in {"comp", "extend"} /\ FirstInvalid # 0) =>
            /\ pc = "comp"
            /\ Len(timestamps) = 4 * iterations)
    /\ [](stdout # <<>> =>
            /\ pc = "done"
            /\ stdout = <<timestamps>>
            /\ Len(timestamps) = 80
            /\ FirstInvalid = 0)
    /\ [][ /\ pc # "error"
           /\ (pc = "comp" /\ FirstInvalid = Len(newdates) + 1) =>
                /\ pc' = "error"
                /\ timestamps' = timestamps
                /\ stdout' = stdout
           /\ pc' = "error" =>
                /\ pc = "comp"
                /\ FirstInvalid = Len(newdates) + 1
      ]_vars

\* The third date is a leap day: two dates of the iteration were advanced
\* before the error, and they are dropped with it.
C9_Witness ==
    /\ pc = "error"
    /\ Len(newdates) = 2
    /\ dates[3] = Date(2024, 2, 29)
    /\ timestamps = <<>>
    /\ stdout = <<>>

\* C10: `dates` always holds exactly 4 dates with the month and day of their
\* seeds; after n completed iterations every year is its seed's plus n, and
\* between the rebinding of `dates` and the end of the iteration it is one
\* more.  The dates of the list being built are the seeds' plus n + 1.
C10_WorkingSet ==
    /\ Len(dates) = 4
    /\ Len(seeds) = 4
    /\ \A i \in 1..4 :
        /\ dates[i].month = seeds[i].month
        /\ dates[i].day = seeds[i].day
        /\ dates[i].year =
            seeds[i].year + iterations + (IF pc = "extend" THEN 1 ELSE 0)
    /\ \A i \in DOMAIN newdates :
        newdates[i] = Date(seeds[i].year + iterations + 1, seeds[i].month, seeds[i].day)
    /\ seeds = << Date(2023, 11, 25), Date(2024, 2, 25),
                  Date(2024, 5, 24), Date(2024, 8, 29) >>

C10_Witness ==
    /\ pc = "while"
    /\ iterations = 20
    /\ dates = << Date(2043, 11, 25), Date(2044, 2, 25),
                  Date(2044, 5, 24), Date(2044, 8, 29) >>

====
